---- MODULE Spec2Model ----
(***************************************************************************)
(* didpoop: the session-authentication pipeline (main.rs run, schema.rs),  *)
(* the per-request batched loader (loaders.rs, models.rs) and the batched  *)
(* relation fetches, as state machines over one storage value.             *)
(*                                                                         *)
(*   Spec      requests, sign_up / login / logout / create_creature, clock *)
(*   SpecLoad  the DataLoader a request owns: load_one, batching, fetches  *)
(*   SpecFetch the four Loader::load fetches applied to bounded storage    *)
(*   SpecTx    create_creature statement by statement, requests in flight  *)
(*   SpecRevoke requests and login while rows get soft-deleted             *)
(***************************************************************************)
EXTENDS Integers, Sequences, FiniteSets, TLC

\* ------------------------------------------------------------------ bounds
MaxTokens == 2
MaxTime == 2
MaxCreatures == 1
\* CONFIG.auth_expiration_seconds is read from AUTH_EXPIRATION_SECONDS
\* (config.rs:57, default 43200); the model runs it with a small value.
AuthExpirationSeconds == 2

Emails == {"a@x", "b@x"}
Passwords == {"pw1", "pw2"}
\* Every account has its own salted digest, so which password an account
\* was created with is immaterial: accounts are created with the first one
\* and login tries both (the right one and a wrong one).
SignUpPasswords == {"pw1"}
UserName == "n"
CreatureName == "Rex"

VARIABLES
    db,      \* persistent storage: the poop.* tables, rows in insertion order
    now,     \* the clock read by Utc::now() and by now() in storage
    ctx,     \* the Request Context of the request being executed
    resp,    \* the result of the last operation executed in that request
    issued,  \* history: raw token, user and time of every session issued
    loaders, \* per DataLoader and key type: keys, pending senders, cache, timers
    calls,   \* every load_one call made: its request, key, and what it got
    fetches, \* every Loader::load invocation: its batch and how it ended
    probe,   \* the last comparison of a batched fetch with a dedicated one
    trs,     \* per request: the storage transaction create_creature has open
    aborted  \* history: ids of the creatures inserted by a transaction that failed

sessionVars == <<now, ctx, resp, issued>>
loadVars == <<loaders, calls, fetches>>
txVars == <<trs, aborted>>
vars == <<db, now, ctx, resp, issued, loaders, calls, fetches, probe, trs, aborted>>

\* ------------------------------------------------------------- Option, Result
None == <<>>
Some(x) == <<x>>
IsSome(o) == Len(o) = 1
Unwrap(o) == o[1]

Range(s) == {s[i] : i \in 1..Len(s)}
Min(S) == CHOOSE x \in S : \A y \in S : x <= y

\* ------------------------------------------------------------------ errors
\* thiserror's #[error("...")] strings: the Display of every AppError kind.
Display(kind) ==
    CASE kind = "E" -> "error"
      [] kind = "DBNotFound" -> "db error, not found"
      [] kind = "DB" -> "db error"
      [] kind = "Unauthorized" -> "unauthorized"
      [] kind = "Forbidden" -> "forbidden"
      [] kind = "BadRequest" -> "bad request"
      [] kind = "Hex" -> "hex error"

Absent == "(absent)"
NoExt == [code |-> Absent, error |-> Absent, key |-> Absent]

AppError(kind, s) == [kind |-> kind, s |-> s]

\* From<sqlx::Error> for AppError: RowNotFound is told apart from the rest.
FromSqlx(e) ==
    IF e = "RowNotFound" THEN AppError("DBNotFound", "") ELSE AppError("DB", "")

is_db_not_found_never(e) == FALSE

is_db_not_found(e) == e.kind = "DBNotFound"

\* A FieldError: its message and its extensions. kind is the AppError the
\* FieldError was made from (a FieldError itself carries only the message).
FieldError(e, ext) ==
    [kind |-> e.kind, message |-> Display(e.kind), ext |-> ext]

\* `?` on an AppError in a resolver: From<T: Display>, no extensions.
IntoFieldError(e) == FieldError(e, NoExt)

\* ErrorExtensions::extend for AppError. "i:" marks a number, "s:" a string.
extend(e) ==
    FieldError(e,
        CASE e.kind = "E" -> [NoExt EXCEPT !.code = "s:500", !.error = e.s]
          [] e.kind = "DB" -> [NoExt EXCEPT !.code = "i:500"]
          [] e.kind = "DBNotFound" -> [NoExt EXCEPT !.code = "i:404"]
          [] e.kind = "Unauthorized" -> [NoExt EXCEPT !.code = "i:401", !.error = e.s]
          [] e.kind = "Forbidden" -> [NoExt EXCEPT !.code = "i:403", !.error = e.s]
          [] e.kind = "BadRequest" -> [NoExt EXCEPT !.code = "i:400", !.error = e.s]
          [] e.kind = "Hex" -> [NoExt EXCEPT !.code = "i:500"])

NoError == [kind |-> "", message |-> "", ext |-> NoExt]

\* ------------------------------------------------------------------ crypto
\* crate::crypto is not part of the source tree; modelled from the spec
\* (4.1, 4.2): a deterministic salted derivation without collisions, a keyed
\* signature without collisions whose output is never its own input.
derive_password_hash(pw, salt) == [pw |-> pw, salt |-> salt]

hmac_sign(s) == [s EXCEPT !.mac = @ + 1]

\* n random bytes: a value not drawn before (random 31/32-byte values do not
\* repeat). Unused values are interchangeable, so the least one is drawn.
\* The generator's failure is a separate outcome of its callers.
rand_bytes(n, used) == [rnd |-> Min((1..(MaxTokens + 1)) \ used), len |-> n]

\* new_pw_salt: a random salt, unique per account.
new_pw_salt(used) == Min((1..(Cardinality(used) + 1)) \ used)

\* hex::encode / hex::decode of a byte string
hex_encode(b) == <<"hex", b>>
hex_decode(s) == IF s[1] = "hex" THEN Some(s[2]) ELSE None

\* A text that can travel as a cookie value or be stored as a token hash:
\* an optional prefix, the hex encoding of random bytes, and how many times
\* it went through hmac_sign.
Text(pre, bytes) == [pre |-> pre, body |-> bytes, mac |-> 0]

\* ----------------------------------------------------------------- storage
EmptyDb ==
    [users |-> <<>>, auth_tokens |-> <<>>, creatures |-> <<>>,
     creature_access |-> <<>>, poops |-> <<>>]

\* sqlx fetch_one over the rows a query selects: one of the rows, RowNotFound
\* when there is none, or a failure of the round trip itself.
Ok(v) == [ok |-> TRUE, val |-> Some(v), err |-> ""]
Err(e) == [ok |-> FALSE, val |-> None, err |-> e]
fetch_one(rows) ==
    (IF rows = {} THEN {Err("RowNotFound")} ELSE {Ok(r) : r \in rows})
        \cup {Err("Io")}

\* The random values already handed out as session tokens.
UsedRnd(d) == {d.auth_tokens[i].hash.body.rnd : i \in 1..Len(d.auth_tokens)}

\* --------------------------------------------------------- session lookup
\* The lookup with `at.expires >= now()`.
session_rows_inclusive(d, t, cookie) ==
    LET hash == hmac_sign(cookie) IN
    {u \in Range(d.users) :
        \E at \in Range(d.auth_tokens) :
            /\ u.id = at.user_id
            /\ at.hash = hash
            /\ at.deleted = FALSE
            /\ at.expires >= t
            /\ u.deleted = FALSE}

\* The lookup without `at.hash = $1`.
session_rows_any_hash(d, t, cookie) ==
    {u \in Range(d.users) :
        \E at \in Range(d.auth_tokens) :
            /\ u.id = at.user_id
            /\ at.deleted = FALSE
            /\ at.expires > t
            /\ u.deleted = FALSE}

\* The lookup without `u.deleted is false`.
session_rows_deleted_user(d, t, cookie) ==
    LET hash == hmac_sign(cookie) IN
    {u \in Range(d.users) :
        \E at \in Range(d.auth_tokens) :
            /\ u.id = at.user_id
            /\ at.hash = hash
            /\ at.deleted = FALSE
            /\ at.expires > t}

\* main.rs run: the join of users and auth_tokens selected for a cookie.
session_rows(d, t, cookie) ==
    LET hash == hmac_sign(cookie) IN
    {u \in Range(d.users) :
        \E at \in Range(d.auth_tokens) :
            /\ u.id = at.user_id
            /\ at.hash = hash
            /\ at.deleted = FALSE
            /\ at.expires > t
            /\ u.deleted = FALSE}

\* The identity a request gets for its cookie: the user of a successful
\* lookup, nothing for a missing cookie and for any Err of the lookup.
Identity(cookie, q) ==
    IF IsSome(cookie) /\ q.ok THEN q.val ELSE None

\* The last thing the server did: op, its result, the set-cookie header it
\* produced. fault names the failure of the environment (storage round
\* trip, random generator) injected into it, "none" when there was none.
Resp(op, ok, err, val, fault, set_cookie) ==
    [op |-> op, ok |-> ok, err |-> err, val |-> val, fault |-> fault,
     set_cookie |-> set_cookie]
NoResp == Resp("", TRUE, NoError, None, "none", None)

\* Cookie values a client may present: any hex token text, issued or not.
CookieValues ==
    {Text("", [rnd |-> v, len |-> 32]) : v \in 1..(MaxTokens + 1)}

\* run with `let u = u?`: an Err of the lookup ends the request.
run_result_propagating(cookie, q) ==
    IF IsSome(cookie) /\ ~q.ok
    THEN Resp("request", FALSE, IntoFieldError(FromSqlx(q.err)), None, q.err, None)
    ELSE Resp("request", TRUE, NoError, None, IF q.ok THEN "none" ELSE q.err, None)

\* What run answers for the lookup itself: `if let Ok(u) = u` has no else
\* branch, the handler goes on to schema.execute whatever the lookup gave.
run_result(cookie, q) ==
    Resp("request", TRUE, NoError, None, IF q.ok THEN "none" ELSE q.err, None)

\* The warp handler of POST /api/graphql up to schema.execute, for a
\* request without a cookie or with one of `cookies`.
RequestWith(cookies) ==
    /\ resp = NoResp
    /\ \E cookie \in {None} \cup {Some(c) : c \in cookies} :
       \E q \in (IF IsSome(cookie)
                 THEN fetch_one(session_rows(db, now, Unwrap(cookie)))
                 ELSE {Err("NoCookie")}) :
          /\ ctx' = [active |-> TRUE, user |-> Identity(cookie, q),
                     cookie |-> cookie]
          /\ resp' = run_result(cookie, q)
    /\ UNCHANGED <<db, now, issued, loadVars, probe, txVars>>

Request == RequestWith(CookieValues)

\* ------------------------------------------------------------ schema.rs
SecureCookie == TRUE

format_set_cookie(token) ==
    [name |-> "poop_auth", token |-> token, domain |-> "localhost",
     secure |-> SecureCookie, http_only |-> TRUE,
     max_age |-> AuthExpirationSeconds, same_site |-> "Lax", path |-> "/"]

\* What an operation leaves behind: its result, the storage after it, the
\* set-cookie header it inserted (if any) and the raw token it issued (if any).
Outcome(ok, err, val, d, set_cookie, raw, fault) ==
    [ok |-> ok, err |-> err, val |-> val, db |-> d,
     set_cookie |-> set_cookie, raw |-> raw, fault |-> fault]
Failed(err, d, fault) == Outcome(FALSE, err, None, d, None, None, fault)

\* login_ctx that keeps one session per user: the user's earlier rows go.
login_ctx_single_session(d, t, user) ==
    LET token == Text("", rand_bytes(32, UsedRnd(d)))
        row == [user_id |-> user.id, hash |-> hmac_sign(token),
                expires |-> t + AuthExpirationSeconds, deleted |-> FALSE]
        kept == SelectSeq(d.auth_tokens, LAMBDA r : r.user_id # user.id)
    IN  {Failed(AppError("E", "rand"), d, "rand"),
         Failed(FromSqlx("Io"), d, "io_token"),
         Outcome(TRUE, AppError("", ""), None,
                 [d EXCEPT !.auth_tokens = Append(kept, row)],
                 Some(format_set_cookie(token)), Some(token), "none")}

\* login_ctx that stores the token itself in auth_tokens.hash.
login_ctx_stores_raw(d, t, user) ==
    LET token == Text("", rand_bytes(32, UsedRnd(d)))
        row == [user_id |-> user.id, hash |-> token,
                expires |-> t + AuthExpirationSeconds, deleted |-> FALSE]
    IN  {Failed(AppError("E", "rand"), d, "rand"),
         Failed(FromSqlx("Io"), d, "io_token"),
         Outcome(TRUE, AppError("", ""), None,
                 [d EXCEPT !.auth_tokens = Append(@, row)],
                 Some(format_set_cookie(token)), Some(token), "none")}

\* login_ctx that inserts the set-cookie header before the row.
login_ctx_cookie_first(d, t, user) ==
    LET token == Text("", rand_bytes(32, UsedRnd(d)))
        row == [user_id |-> user.id, hash |-> hmac_sign(token),
                expires |-> t + AuthExpirationSeconds, deleted |-> FALSE]
    IN  {Failed(AppError("E", "rand"), d, "rand"),
         Outcome(FALSE, FromSqlx("Io"), None, d,
                 Some(format_set_cookie(token)), None, "io_token"),
         Outcome(TRUE, AppError("", ""), None,
                 [d EXCEPT !.auth_tokens = Append(@, row)],
                 Some(format_set_cookie(token)), Some(token), "none")}

\* login_ctx, as Result<(), AppError>: err is the AppError.
login_ctx(d, t, user) ==
    LET token == Text("", rand_bytes(32, UsedRnd(d)))
        token_hash == hmac_sign(token)
        expires == t + AuthExpirationSeconds
        row == [user_id |-> user.id, hash |-> token_hash,
                expires |-> expires, deleted |-> FALSE]
    IN  {Failed(AppError("E", "rand"), d, "rand"),
         Failed(FromSqlx("Io"), d, "io_token"),
         Outcome(TRUE, AppError("", ""), None,
                 [d EXCEPT !.auth_tokens = Append(@, row)],
                 Some(format_set_cookie(token)), Some(token), "none")}

\* `login_ctx(ctx, &user).await?; Ok(user)` at the end of sign_up and login.
\* A header login_ctx inserted stays in the response when `?` returns.
finish_login(d, t, user) ==
    {IF o.ok
        THEN Outcome(TRUE, NoError, Some(user), o.db, o.set_cookie, o.raw, "none")
        ELSE Outcome(FALSE, IntoFieldError(o.err), None, o.db, o.set_cookie,
                     None, o.fault)
     : o \in login_ctx(d, t, user)}

\* poop.users.email is unique (spec 3): the insert fails on a known email.
EmailTaken(d, email) == \E u \in Range(d.users) : u.email = email

UsedSalts(d) == {hex_decode(d.users[i].pw_salt)[1] : i \in 1..Len(d.users)}

\* sign_up whose insert and session issuance share one transaction: a failed
\* issuance takes the user row back.
sign_up_transactional(d, t, email, name, pw) ==
    LET salt == new_pw_salt(UsedSalts(d))
        hash == derive_password_hash(pw, salt)
        user == [id |-> Len(d.users) + 1, email |-> email, name |-> name,
                 pw_salt |-> hex_encode(salt), pw_hash |-> hex_encode(hash),
                 deleted |-> FALSE]
        failed == [extend(FromSqlx("Database")) EXCEPT
                      !.ext.key = "INVALID_USER_SIGN_UP"]
    IN  IF EmailTaken(d, email)
        THEN {Failed(failed, d, "none")}
        ELSE {Failed(failed, d, "io_user")}
             \cup {IF o.ok THEN o ELSE [o EXCEPT !.db = d]
                   : o \in finish_login([d EXCEPT !.users = Append(@, user)], t, user)}

\* MutationRoot::sign_up
sign_up(d, t, email, name, pw) ==
    LET salt == new_pw_salt(UsedSalts(d))
        hash == derive_password_hash(pw, salt)
        user == [id |-> Len(d.users) + 1, email |-> email, name |-> name,
                 pw_salt |-> hex_encode(salt), pw_hash |-> hex_encode(hash),
                 deleted |-> FALSE]
        failed == [extend(FromSqlx("Database")) EXCEPT
                      !.ext.key = "INVALID_USER_SIGN_UP"]
    IN  IF EmailTaken(d, email)
        THEN {Failed(failed, d, "none")}
        ELSE {Failed(failed, d, "io_user")}
             \cup finish_login([d EXCEPT !.users = Append(@, user)], t, user)

\* login that finds the user and never compares the digests.
login_without_password_check(d, t, email, pw) ==
    UNION {
        IF ~q.ok
        THEN LET e == FromSqlx(q.err)
                 e2 == IF is_db_not_found(e)
                       THEN AppError("BadRequest", "bad request") ELSE e
             IN  {Failed(IntoFieldError(e2), d,
                         IF q.err = "Io" THEN "io_user" ELSE "none")}
        ELSE finish_login(d, t, Unwrap(q.val))
        : q \in fetch_one({u \in Range(d.users) :
                               u.email = email /\ u.deleted = FALSE})}

\* MutationRoot::login
login(d, t, email, pw) ==
    UNION {
        IF ~q.ok
        THEN LET e == FromSqlx(q.err)
                 e2 == IF is_db_not_found(e)
                       THEN AppError("BadRequest", "bad request") ELSE e
             IN  {Failed(IntoFieldError(e2), d,
                         IF q.err = "Io" THEN "io_user" ELSE "none")}
        ELSE LET user == Unwrap(q.val)
                 user_hash == hex_decode(user.pw_hash)
                 salt == hex_decode(user.pw_salt)
             IN  IF ~IsSome(user_hash) \/ ~IsSome(salt)
                 THEN {Failed(IntoFieldError(AppError("Hex", "")), d, "none")}
                 ELSE IF Unwrap(user_hash) # derive_password_hash(pw, Unwrap(salt))
                 THEN {Failed(extend(AppError("BadRequest", "bad request")), d, "none")}
                 ELSE finish_login(d, t, user)
        : q \in fetch_one({u \in Range(d.users) :
                               u.email = email /\ u.deleted = FALSE})}

\* logout that also revokes the sessions in storage.
logout_revoking(d) ==
    {Outcome(TRUE, NoError, Some(TRUE),
             [d EXCEPT !.auth_tokens =
                 [i \in 1..Len(@) |-> [@[i] EXCEPT !.deleted = TRUE]]],
             Some(format_set_cookie(Text("xx", [rnd |-> 1, len |-> 31]))), None,
             "none")}

\* logout that overwrites the cookie with 32 random bytes in hex, no prefix.
logout_without_prefix(d) ==
    {Outcome(TRUE, NoError, Some(TRUE), d,
             Some(format_set_cookie(Text("", [rnd |-> v, len |-> 32]))), None,
             IF v = 0 THEN "rand" ELSE "none")
     : v \in {0, 1}}

\* MutationRoot::logout: the cookie is overwritten with "xx" + 31 random
\* bytes in hex (zeros when the generator fails); storage is not touched.
logout(d) ==
    {Outcome(TRUE, NoError, Some(TRUE), d,
             Some(format_set_cookie(Text("xx", [rnd |-> v, len |-> 31]))), None,
             IF v = 0 THEN "rand" ELSE "none")
     : v \in {0, 1}}

\* A guard that lets every request through.
LoginGuard_absent(c) == None

\* LoginGuard::check
LoginGuard(c) ==
    IF ~IsSome(c.user)
    THEN Some(extend(AppError("Unauthorized", "Unauthorized")))
    ELSE None

\* A row of `select c.*, ca.user_id, ca.kind from creatures c join creature_access ca`.
CreatureRelation(c, ca) ==
    [id |-> c.id, user_id |-> ca.user_id, kind |-> ca.kind,
     creator_id |-> c.creator_id, name |-> c.name, deleted |-> c.deleted]

\* A sqlx::Error turned into a FieldError by `?` in a resolver.
SqlxFieldError == [kind |-> "Sqlx", message |-> "sqlx error", ext |-> NoExt]

\* MutationRoot::create_creature, behind its guard: one transaction; any
\* failing statement drops the transaction, which rolls it back.
create_creature(d, c, name) ==
    IF IsSome(LoginGuard(c))
    THEN {Failed(Unwrap(LoginGuard(c)), d, "none")}
    ELSE LET user == Unwrap(c.user)
             creature == [id |-> Len(d.creatures) + 1, creator_id |-> user.id,
                          name |-> name, deleted |-> FALSE]
             access == [creature_id |-> creature.id, user_id |-> user.id,
                        creator_id |-> user.id, kind |-> "creator",
                        deleted |-> FALSE]
             d2 == [d EXCEPT !.creatures = Append(@, creature),
                             !.creature_access = Append(@, access)]
             rows == {CreatureRelation(cr, ca) :
                        cr \in {x \in Range(d2.creatures) :
                                    x.id = creature.id /\ x.deleted = FALSE},
                        ca \in {x \in Range(d2.creature_access) :
                                    x.creature_id = creature.id /\ x.deleted = FALSE}}
         IN  {Failed(SqlxFieldError, d, "io_tx")}
             \cup {Outcome(TRUE, NoError, Some(r), d2, None, None, "none") : r \in rows}

\* QueryRoot::user and QueryRoot::poops, behind their guards.
query_user(d, c) ==
    IF IsSome(LoginGuard(c))
    THEN {Failed(Unwrap(LoginGuard(c)), d, "none")}
    ELSE {Outcome(TRUE, NoError, c.user, d, None, None, "none")}

query_poops(d, c) ==
    IF IsSome(LoginGuard(c))
    THEN {Failed(Unwrap(LoginGuard(c)), d, "none")}
    ELSE {Outcome(TRUE, NoError, Some([id |-> "1", maker |-> "James"]), d, None,
                  None, "none")}

\* ------------------------------------------------------------ loaders.rs
\* fetch_all: the rows a query selects, in an order the query leaves open.
\* Without ORDER BY any order of the rows can come back; with
\* `order by created desc` any order that does not put an older row first.
Orders(rows) ==
    {q \in [1..Cardinality(rows) -> rows] :
        \A i, j \in 1..Cardinality(rows) : i # j => q[i] # q[j]}

OrdersByCreatedDesc(rows) ==
    {q \in Orders(rows) :
        \A i, j \in 1..Cardinality(rows) : i < j => q[i].created >= q[j].created}

\* The fold of the rows into a HashMap with one value per key, ks[i] being
\* the key of row q[i]: a later row of the same key replaces an earlier one.
FoldLast(q, ks) ==
    [k \in Range(ks) |->
        q[CHOOSE i \in DOMAIN q :
            /\ ks[i] = k
            /\ \A j \in DOMAIN q : ks[j] = k => j <= i]]

\* The fold of the rows into a HashMap of Vecs: entry(key).push(row), so a
\* key's rows keep the order they came in.
FoldPush(q, ks) ==
    [k \in Range(ks) |->
        LET at == {i \in DOMAIN q : ks[i] = k}
        IN  [n \in 1..Cardinality(at) |->
                q[CHOOSE i \in at : Cardinality({j \in at : j <= i}) = n]]]

\* The rows of `poop.creatures c inner join poop.creature_access ca`.
JoinCreatureAccess(d) ==
    {j \in [c : Range(d.creatures), ca : Range(d.creature_access)] :
        j.ca.creature_id = j.c.id}

\* Loader<UserId>::load: keys are user ids.
LoadUserId(d, keys) ==
    LET rows == {u \in Range(d.users) : u.id \in keys}
    IN  {FoldLast(q, [i \in DOMAIN q |-> q[i].id]) : q \in Orders(rows)}

\* Loader<CreatureUserId>::load: keys are <<creature_id, user_id>>; $1 is
\* bound to the user ids and $2 to the creature ids.
LoadCreatureUserId_binds_swapped(d, keys) ==
    LET c_ids == {k[1] : k \in keys}
        u_ids == {k[2] : k \in keys}
        rows == {CreatureRelation(j.c, j.ca) :
                    j \in {x \in JoinCreatureAccess(d) :
                              /\ x.c.deleted = FALSE
                              /\ x.ca.deleted = FALSE
                              /\ (x.ca.user_id \in c_ids
                                    \/ x.ca.creature_id \in u_ids)}}
    IN  {FoldLast(q, [i \in DOMAIN q |-> <<q[i].id, q[i].user_id>>]) : q \in Orders(rows)}

\* The load that answers a key with any fetched row matching one of its sides.
LoadCreatureUserId_either_side(d, keys) ==
    LET c_ids == {k[1] : k \in keys}
        u_ids == {k[2] : k \in keys}
        rows == {CreatureRelation(j.c, j.ca) :
                    j \in {x \in JoinCreatureAccess(d) :
                              /\ x.c.deleted = FALSE
                              /\ x.ca.deleted = FALSE
                              /\ (x.ca.user_id \in u_ids
                                    \/ x.ca.creature_id \in c_ids)}}
        hit(k) == {r \in rows : r.id = k[1] \/ r.user_id = k[2]}
    IN  {[k \in {x \in keys : hit(x) # {}} |-> CHOOSE r \in hit(k) : TRUE]}

LoadCreatureUserId(d, keys) ==
    LET c_ids == {k[1] : k \in keys}
        u_ids == {k[2] : k \in keys}
        rows == {CreatureRelation(j.c, j.ca) :
                    j \in {x \in JoinCreatureAccess(d) :
                              /\ x.c.deleted = FALSE
                              /\ x.ca.deleted = FALSE
                              /\ (x.ca.user_id \in u_ids
                                    \/ x.ca.creature_id \in c_ids)}}
    IN  {FoldLast(q, [i \in DOMAIN q |-> <<q[i].id, q[i].user_id>>]) : q \in Orders(rows)}

\* The load whose query lacks `and c.deleted is false`.
LoadCreaturesForUserId_deleted_too(d, keys) ==
    LET rows == {CreatureRelation(j.c, j.ca) :
                    j \in {x \in JoinCreatureAccess(d) :
                              /\ x.ca.user_id \in keys
                              /\ x.ca.deleted = FALSE}}
    IN  {FoldPush(q, [i \in DOMAIN q |-> q[i].user_id]) : q \in Orders(rows)}

\* Loader<CreaturesForUserId>::load: keys are user ids.
LoadCreaturesForUserId(d, keys) ==
    LET rows == {CreatureRelation(j.c, j.ca) :
                    j \in {x \in JoinCreatureAccess(d) :
                              /\ x.ca.user_id \in keys
                              /\ x.ca.deleted = FALSE
                              /\ x.c.deleted = FALSE}}
    IN  {FoldPush(q, [i \in DOMAIN q |-> q[i].user_id]) : q \in Orders(rows)}

\* The load whose query lacks `order by p.created desc`.
LoadPoopsForCreatureId_unordered(d, keys) ==
    LET rows == {p \in Range(d.poops) :
                    p.creature_id \in keys /\ p.deleted = FALSE}
    IN  {FoldPush(q, [i \in DOMAIN q |-> q[i].creature_id]) : q \in Orders(rows)}

\* Loader<PoopsForCreatureId>::load: keys are creature ids.
LoadPoopsForCreatureId(d, keys) ==
    LET rows == {p \in Range(d.poops) :
                    p.creature_id \in keys /\ p.deleted = FALSE}
    IN  {FoldPush(q, [i \in DOMAIN q |-> q[i].creature_id]) : q \in OrdersByCreatedDesc(rows)}

KeyTypes == {"UserId", "CreatureUserId", "CreaturesForUserId", "PoopsForCreatureId"}

\* The HashMaps PgLoader's load for key type t can return for `keys`.
PgLoad(t, d, keys) ==
    CASE t = "UserId" -> LoadUserId(d, keys)
      [] t = "CreatureUserId" -> LoadCreatureUserId(d, keys)
      [] t = "CreaturesForUserId" -> LoadCreaturesForUserId(d, keys)
      [] t = "PoopsForCreatureId" -> LoadPoopsForCreatureId(d, keys)

\* HashMap::get / remove of one key as an Option.
MapGet(m, k) == IF k \in DOMAIN m THEN Some(m[k]) ELSE None

\* User::creatures for the user with this id, fetched by a fresh loader:
\* load_one(CreaturesForUserId(id)), an absent key giving the empty Vec.
User_creatures(d, id) ==
    {IF IsSome(MapGet(m, id)) THEN Unwrap(MapGet(m, id)) ELSE <<>>
     : m \in LoadCreaturesForUserId(d, {id})}

\* `.await?.unwrap_or_else(Vec::new)` on what load_one returned.
unwrap_or_else_new(o) == IF IsSome(o) THEN Unwrap(o) ELSE <<>>

\* CreatureRelation::poops for the creature with this id, fetched by a
\* fresh loader: load_one(PoopsForCreatureId(id)).
CreatureRelation_poops(d, id) ==
    {unwrap_or_else_new(MapGet(m, id)) : m \in LoadPoopsForCreatureId(d, {id})}

\* ------------------------------------------- the DataLoader of a request
\* Two requests in flight, each resolving User::creatures for user ids.
Requests == {1, 2}
LoadTypes == {"CreaturesForUserId"}
LoadKeys == {1, 2}
MaxCalls == 3

\* DataLoader::new(PgLoader::new(pool), tokio::spawn): no cache, and a batch
\* is loaded at once when it holds this many keys.
max_batch_size == 1000

\* run: the DataLoader put into the data of request r is built for r alone.
loader_shared(r) == 1
loader_of(r) == r

\* The cache of DataLoader::new is NoCache: nothing is found, nothing kept.
cache_get(cache, k) == None
cache_insert(cache, values) == cache

\* Requests<K, T>: what a DataLoader holds for one key type.
NewRequests == [keys |-> {}, pending |-> <<>>, cache |-> <<>>, tasks |-> 0]

InitLoaders ==
    /\ loaders = [l \in Requests |-> [t \in LoadTypes |-> NewRequests]]
    /\ calls = [r \in Requests |-> <<>>]
    /\ fetches = [l \in Requests |-> <<>>]

\* Requests::take: the keys and the pending senders gathered so far.
take_first_pending(tr) ==
    [keys |-> IF tr.pending = <<>> THEN {} ELSE tr.pending[1].keys,
     pending |-> SubSeq(tr.pending, 1, 1)]

take(tr) == [keys |-> tr.keys, pending |-> tr.pending]

\* What take leaves behind in the Requests.
Taken(tr, b) ==
    [tr EXCEPT !.keys = @ \ b.keys,
               !.pending = SelectSeq(@, LAMBDA p :
                               \A j \in 1..Len(b.pending) : b.pending[j] # p)]

\* The result a load_one call gets; a failure is the Arc of the fetch that
\* failed, named <<loader, number of the fetch>>.
NoRes == [ok |-> FALSE, val |-> None, err |-> <<>>]
\* load_one that turns a key the batch did not resolve into an error.
LoadOk_absent_is_error(val) ==
    IF val = None
    THEN [ok |-> FALSE, val |-> None, err |-> <<0, 0>>]
    ELSE [ok |-> TRUE, val |-> val, err |-> <<>>]

LoadOk(val) == [ok |-> TRUE, val |-> val, err |-> <<>>]
LoadErr(arc) == [ok |-> FALSE, val |-> None, err |-> arc]

\* do_load, after Loader::load of the batch ended with `outcome`: the cache
\* takes the values found, and every pending sender is sent either the values
\* of its own keys or a clone of the one Arc the failure is held in.
do_load_first_sender_only(cache, pending, arc, outcome) ==
    [cache |-> IF outcome.ok THEN cache_insert(cache, outcome.values) ELSE cache,
     replies |-> [j \in (IF outcome.ok THEN DOMAIN pending
                         ELSE DOMAIN pending \cap {1}) |->
                    IF outcome.ok
                    THEN [ok |-> TRUE, err |-> <<>>,
                          values |-> [k \in pending[j].keys \cap DOMAIN outcome.values
                                        |-> outcome.values[k]]]
                    ELSE [ok |-> FALSE, err |-> arc, values |-> <<>>]]]

do_load(cache, pending, arc, outcome) ==
    [cache |-> IF outcome.ok THEN cache_insert(cache, outcome.values) ELSE cache,
     replies |-> [j \in DOMAIN pending |->
                    IF outcome.ok
                    THEN [ok |-> TRUE, err |-> <<>>,
                          values |-> [k \in pending[j].keys \cap DOMAIN outcome.values
                                        |-> outcome.values[k]]]
                    ELSE [ok |-> FALSE, err |-> arc, values |-> <<>>]]]

\* The fetches made so far by loader l for key type t.
FetchesOf(l, t) == {i \in DOMAIN fetches[l] : fetches[l][i].type = t}

\* tokio::spawn(do_load) of a batch taken from loader l's Requests of type t.
Spawned(l, t, b) ==
    [fetches EXCEPT ![l] = Append(@, [type |-> t, keys |-> b.keys,
                                      pending |-> b.pending, state |-> "running"])]

TotalCalls == Len(calls[1]) + Len(calls[2])

\* DataLoader::load_one(key) in request r, up to its await: load_many of the
\* one key. A cached value is returned at once; otherwise the key joins the
\* Requests' keys with a sender, and the batch is loaded at once when full,
\* or a task is spawned to load it after the delay when the key is the first.
Load(r, t, k) ==
    /\ TotalCalls < MaxCalls
    /\ LET l == loader_of(r)
           tr == loaders[l][t]
           hit == cache_get(tr.cache, k)
           call == [type |-> t, key |-> k, done |-> FALSE, res |-> NoRes,
                    epoch |-> Cardinality(FetchesOf(l, t))]
           tr2 == [tr EXCEPT !.keys = @ \cup {k},
                             !.pending = Append(@, [keys |-> {k},
                                                    tx |-> <<r, Len(calls[r]) + 1>>])]
       IN  IF IsSome(hit)
           THEN /\ calls' = [calls EXCEPT ![r] =
                                Append(@, [call EXCEPT !.done = TRUE,
                                                       !.res = LoadOk(hit)])]
                /\ UNCHANGED <<loaders, fetches>>
           ELSE /\ calls' = [calls EXCEPT ![r] = Append(@, call)]
                /\ IF Cardinality(tr2.keys) >= max_batch_size
                   THEN /\ loaders' = [loaders EXCEPT ![l][t] = Taken(tr2, take(tr2))]
                        /\ fetches' = Spawned(l, t, take(tr2))
                   ELSE /\ loaders' = [loaders EXCEPT ![l][t] =
                                [tr2 EXCEPT !.tasks =
                                    IF Cardinality(tr.keys) = 0 THEN @ + 1 ELSE @]]
                        /\ UNCHANGED fetches
    /\ UNCHANGED <<db, sessionVars, probe, txVars>>

LoadOne == \E r \in Requests, t \in LoadTypes, k \in LoadKeys : Load(r, t, k)

\* The task spawned by the first key wakes after the delay: it takes what
\* has gathered and, if that is anything, loads it.
Dispatch ==
    \E l \in Requests, t \in LoadTypes :
        LET tr == loaders[l][t]
            b == take(tr)
        IN  /\ tr.tasks > 0
            /\ loaders' = [loaders EXCEPT ![l][t] =
                              [Taken(tr, b) EXCEPT !.tasks = @ - 1]]
            /\ fetches' = IF b.keys = {} THEN fetches ELSE Spawned(l, t, b)
            /\ UNCHANGED <<db, calls, sessionVars, probe, txVars>>

\* Loader::load of loader l's fetch i ended with `outcome`: do_load answers
\* the senders, and each load_one returns the value of its key, if the batch
\* had one.
Answer(l, i, outcome) ==
    LET f == fetches[l][i]
        tr == loaders[l][f.type]
        sent == do_load(tr.cache, f.pending, <<l, i>>, outcome)
        Reply(tx) == sent.replies[CHOOSE j \in DOMAIN sent.replies : f.pending[j].tx = tx]
    IN  /\ f.state = "running"
        /\ fetches' = [fetches EXCEPT ![l][i].state = IF outcome.ok THEN "ok" ELSE "err"]
        /\ loaders' = [loaders EXCEPT ![l][f.type].cache = sent.cache]
        /\ calls' = [r \in Requests |-> [c \in DOMAIN calls[r] |->
                       IF \E j \in DOMAIN sent.replies : f.pending[j].tx = <<r, c>>
                       THEN [calls[r][c] EXCEPT
                               !.done = TRUE,
                               !.res = IF Reply(<<r, c>>).ok
                                       THEN LoadOk(MapGet(Reply(<<r, c>>).values,
                                                          calls[r][c].key))
                                       ELSE LoadErr(Reply(<<r, c>>).err)]
                       ELSE calls[r][c]]]
        /\ UNCHANGED <<db, sessionVars, probe, txVars>>

FetchOk ==
    \E l \in Requests :
        \E i \in DOMAIN fetches[l] :
            \E values \in PgLoad(fetches[l][i].type, db, fetches[l][i].keys) :
                Answer(l, i, [ok |-> TRUE, values |-> values])

FetchErr ==
    \E l \in Requests :
        \E i \in DOMAIN fetches[l] : Answer(l, i, [ok |-> FALSE, values |-> <<>>])

\* No batched fetch has been compared with a dedicated one yet.
NoProbe ==
    [type |-> "none", keys |-> {}, key |-> 0, batched |-> None, dedicated |-> None]

\* ------------------------------------- the transaction of create_creature
\* Ids the poop.creatures sequence hands out in one run.
MaxCreated == 2

\* No transaction open (tr dropped or never begun).
NoTx ==
    [pc |-> "none", user |-> 0, c_id |-> 0, creatures |-> <<>>,
     creature_access |-> <<>>, val |-> None]

\* pool.begin(): nothing written yet.
begin(user) == [NoTx EXCEPT !.pc = "begun", !.user = user.id]

\* A statement run on the pool: it commits on its own.
execute_on_pool(d, tr, table, row) ==
    [db |-> [d EXCEPT ![table] = Append(@, row)], tr |-> tr]

\* A statement run on `&mut tr`: its row is written inside the transaction
\* and storage as other connections read it stays as it was.
execute(d, tr, table, row) ==
    [db |-> d, tr |-> [tr EXCEPT ![table] = Append(@, row)]]

\* Storage as a statement inside the transaction reads it: the committed
\* rows and the transaction's own.
ReadInTx(d, tr) ==
    [d EXCEPT !.creatures = @ \o tr.creatures,
              !.creature_access = @ \o tr.creature_access]

\* A commit that makes the creature row visible and loses the access row.
commit_creature_only(d, tr) ==
    [d EXCEPT !.creatures = @ \o tr.creatures]

\* tr.commit(): the rows of the transaction become visible, all at once
\* (a commit that returns Err has committed nothing: see TxFail).
commit(d, tr) == ReadInTx(d, tr)

\* The re-read of create_creature inside the transaction.
ReRead(d, tr) ==
    {CreatureRelation(j.c, j.ca) :
        j \in {x \in JoinCreatureAccess(ReadInTx(d, tr)) :
                  /\ x.c.id = tr.c_id
                  /\ x.c.deleted = FALSE
                  /\ x.ca.deleted = FALSE}}

InitTx ==
    /\ trs = [r \in Requests |-> NoTx]
    /\ aborted = {}

\* ------------------------------------------------------------- actions
\* A login_ctx that also puts the user it logged in into the request data,
\* and a logout that takes the user out of it.
data_after_replaced(c, op, o) ==
    IF op \in {"login", "sign_up"} /\ o.ok THEN [c EXCEPT !.user = o.val]
    ELSE IF op = "logout" THEN [c EXCEPT !.user = None]
    ELSE c

\* The request data after a resolver ran: resolvers get `&Context` and only
\* read it (data_opt, data_unchecked); login_ctx and logout add a response
\* header and leave the data as run built it.
data_after(c, op, o) == c

\* An operation of the request being executed took effect with outcome o.
Apply(op, o) ==
    /\ ctx.active
    /\ resp = NoResp
    /\ Len(o.db.auth_tokens) <= MaxTokens
    /\ Len(o.db.creatures) <= MaxCreatures
    /\ db' = o.db
    /\ resp' = Resp(op, o.ok, o.err, o.val, o.fault, o.set_cookie)
    /\ issued' = IF IsSome(o.raw)
                 THEN Append(issued, [token |-> Unwrap(o.raw),
                                      user_id |-> Unwrap(o.val).id, at |-> now])
                 ELSE issued
    /\ ctx' = data_after(ctx, op, o)
    /\ UNCHANGED <<now, loadVars, probe, txVars>>

SignUp ==
    \E email \in Emails, pw \in SignUpPasswords :
        \E o \in sign_up(db, now, email, UserName, pw) : Apply("sign_up", o)

Login ==
    \E email \in Emails, pw \in Passwords :
        \E o \in login(db, now, email, pw) : Apply("login", o)

Logout == \E o \in logout(db) : Apply("logout", o)

CreateCreature ==
    \E o \in create_creature(db, ctx, CreatureName) : Apply("create_creature", o)

QueryUser == \E o \in query_user(db, ctx) : Apply("user", o)

QueryPoops == \E o \in query_poops(db, ctx) : Apply("poops", o)

\* The result of the field just resolved has gone into the response; the
\* executor turns to the next field, or the server to the next request.
NextField ==
    /\ resp # NoResp
    /\ resp' = NoResp
    /\ UNCHANGED <<db, now, ctx, issued, loadVars, probe, txVars>>

\* Time passes between two operations.
Tick ==
    /\ resp = NoResp
    /\ now < MaxTime
    /\ now' = now + 1
    /\ UNCHANGED <<db, ctx, resp, issued, loadVars, probe, txVars>>

InitSession ==
    /\ now = 0
    /\ ctx = [active |-> FALSE, user |-> None, cookie |-> None]
    /\ resp = NoResp
    /\ issued = <<>>

Init ==
    /\ db = EmptyDb
    /\ InitTx
    /\ InitSession
    /\ InitLoaders
    /\ probe = NoProbe

Next ==
    \/ Request
    \/ SignUp
    \/ Login
    \/ Logout
    \/ QueryUser
    \/ QueryPoops
    \/ NextField
    \/ Tick

Spec == Init /\ [][Next]_vars

\* --------------------------------------------------------------- SpecLoad
\* Storage with both accounts signed up, as sign_up leaves it.
SignedUp(d, email) ==
    (CHOOSE o \in sign_up(d, 0, email, UserName, "pw1") : o.ok).db

LoadDb == SignedUp(SignedUp(EmptyDb, "a@x"), "b@x")

\* The first account's create_creature, sent in some other request, commits
\* while loads are under way.
CreatureCreated ==
    \E o \in create_creature(db, [active |-> TRUE, user |-> Some(LoadDb.users[1]),
                                  cookie |-> None], CreatureName) :
        /\ o.ok
        /\ db.creatures = <<>>
        /\ db' = o.db
        /\ UNCHANGED <<sessionVars, loadVars, probe, txVars>>

\* Outside the operations of the core, the creature is shared with the
\* second account (an access row of kind "shared") ...
CreatureShared ==
    /\ Len(db.creatures) = 1
    /\ Len(db.creature_access) = 1
    /\ db' = [db EXCEPT !.creature_access =
                 Append(@, [creature_id |-> db.creatures[1].id,
                            user_id |-> LoadDb.users[2].id,
                            creator_id |-> db.creatures[1].creator_id,
                            kind |-> "shared", deleted |-> FALSE])]
    /\ UNCHANGED <<sessionVars, loadVars, probe, txVars>>

\* ... and then soft-deleted: poop.creatures.deleted is set, the row stays.
CreatureSoftDeleted ==
    /\ Len(db.creatures) = 1
    /\ Len(db.creature_access) = 2
    /\ db.creatures[1].deleted = FALSE
    /\ db' = [db EXCEPT !.creatures[1].deleted = TRUE]
    /\ UNCHANGED <<sessionVars, loadVars, probe, txVars>>

InitLoad ==
    /\ db = LoadDb
    /\ InitTx
    /\ InitSession
    /\ InitLoaders
    /\ probe = NoProbe

NextLoad ==
    \/ LoadOne
    \/ Dispatch
    \/ FetchOk
    \/ FetchErr
    \/ CreatureCreated
    \/ CreatureShared
    \/ CreatureSoftDeleted

SpecLoad == InitLoad /\ [][NextLoad]_vars

\* -------------------------------------------------------------- SpecFetch
\* Bounded storage: the two accounts, two creatures, and up to MaxPoops
\* poops; any row may be soft-deleted, a (creature, user) pair has no access
\* row, an active one or a deleted one, and poops may share a creation time.
UserIds == {1, 2}
CreatureIds == {1, 2}
PoopTimes == {1, 2}
MaxPoops == 2
MaxKeys == 2

StoredUsers(dels) ==
    [i \in DOMAIN LoadDb.users |-> [LoadDb.users[i] EXCEPT !.deleted = i \in dels]]

StoredCreatures(dels) ==
    [c \in 1..2 |-> [id |-> c, creator_id |-> 1, name |-> CreatureName,
                     deleted |-> c \in dels]]

StoredAccess(a) ==
    LET all == [i \in 1..4 |->
                  [st |-> a[i],
                   row |-> [creature_id |-> ((i - 1) \div 2) + 1,
                            user_id |-> ((i - 1) % 2) + 1,
                            creator_id |-> 1,
                            kind |-> IF (i - 1) % 2 = 0 THEN "creator" ELSE "shared",
                            deleted |-> a[i] = "deleted"]]]
        kept == SelectSeq(all, LAMBDA x : x.st # "none")
    IN  [j \in 1..Len(kept) |-> kept[j].row]

StoredPoops(ps) ==
    [i \in DOMAIN ps |->
        [id |-> i, creator_id |-> 1, creature_id |-> ps[i].creature_id,
         deleted |-> ps[i].deleted, created |-> ps[i].created,
         modified |-> ps[i].created]]

FetchDbs ==
    {[LoadDb EXCEPT !.users = StoredUsers(dels)] : dels \in SUBSET UserIds}
    \cup {[LoadDb EXCEPT !.creatures = StoredCreatures(dels),
                         !.creature_access = StoredAccess(a)] :
            dels \in SUBSET CreatureIds,
            a \in [1..4 -> {"none", "active", "deleted"}]}
    \cup {[LoadDb EXCEPT !.poops = StoredPoops(ps)] :
            ps \in UNION {[1..n -> [creature_id : CreatureIds, deleted : BOOLEAN,
                                    created : PoopTimes]] : n \in 0..MaxPoops}}

\* The key sets a batch can hold, out of the keys in `space`.
KeySets(space) == {K \in SUBSET space : K # {} /\ Cardinality(K) <= MaxKeys}

\* Loader::load of a batch `keys` next to Loader::load of the one key k, on
\* the same storage.
Compare(t, space) ==
    /\ probe.type = "none"
    /\ \E keys \in KeySets(space) :
          \E k \in keys :
              \E batched \in {MapGet(m, k) : m \in PgLoad(t, db, keys)},
                 dedicated \in {MapGet(m, k) : m \in PgLoad(t, db, {k})} :
                  probe' = [type |-> t, keys |-> keys, key |-> k,
                            batched |-> batched, dedicated |-> dedicated]
    /\ UNCHANGED <<db, sessionVars, loadVars, txVars>>

FetchUserId == Compare("UserId", UserIds \cup {3})
FetchCreatureUserId == Compare("CreatureUserId", CreatureIds \X UserIds)
FetchCreaturesForUserId == Compare("CreaturesForUserId", UserIds)
FetchPoopsForCreatureId == Compare("PoopsForCreatureId", CreatureIds)

\* Poop rows handed to the resolvers of Poop: any creature, any creator.
PoopInputs ==
    {[id |-> 1, creator_id |-> u, creature_id |-> c, deleted |-> FALSE,
      created |-> 1, modified |-> 1] : c \in CreatureIds, u \in UserIds}

\* Poop::creature keyed by the requesting user instead of the poop's creator.
Poop_creature_key_of_viewer(p, viewer) == <<p.creature_id, viewer>>

\* The key Poop::creature loads, CreatureUserId(self.creature_id,
\* self.creator_id); the user of the request takes no part in it.
Poop_creature_key(p, viewer) == <<p.creature_id, p.creator_id>>

\* What Poop::creature makes of load_one's answer: `?` on a failed load,
\* ok_or_else(AppError::E(..).extend()) on a key that resolved to nothing.
Poop_creature_result(fault, loaded) ==
    IF fault # "none"
    THEN [ok |-> FALSE, val |-> None, err |-> IntoFieldError(FromSqlx(fault))]
    ELSE IF IsSome(loaded)
         THEN [ok |-> TRUE, val |-> loaded, err |-> NoError]
         ELSE [ok |-> FALSE, val |-> None,
               err |-> extend(AppError("E",
                          "missing expected creature -> user relation"))]

\* Poop::creature of poop p in a request of `viewer`, its key loaded in a
\* batch with the other keys of the request.
ResolvePoopCreature ==
    /\ probe.type = "none"
    /\ \E p \in PoopInputs, viewer \in UserIds, fault \in {"none", "Io"} :
          LET k == Poop_creature_key(p, viewer) IN
          \E keys \in {K \in KeySets(CreatureIds \X UserIds) : k \in K} :
              \E batched \in {MapGet(m, k) : m \in LoadCreatureUserId(db, keys)},
                 dedicated \in {MapGet(m, k) : m \in LoadCreatureUserId(db, {k})} :
                  probe' = [type |-> "Poop.creature", keys |-> keys, key |-> k,
                            batched |-> batched, dedicated |-> dedicated,
                            poop |-> p, viewer |-> viewer, fault |-> fault,
                            result |-> Poop_creature_result(fault, batched)]
    /\ UNCHANGED <<db, sessionVars, loadVars, txVars>>

InitFetch ==
    /\ db \in FetchDbs
    /\ InitTx
    /\ InitSession
    /\ InitLoaders
    /\ probe = NoProbe

NextFetch ==
    \/ FetchUserId
    \/ FetchCreatureUserId
    \/ FetchCreaturesForUserId
    \/ FetchPoopsForCreatureId
    \/ ResolvePoopCreature

SpecFetch == InitFetch /\ [][NextFetch]_vars

\* ----------------------------------------------------------------- SpecTx
\* create_creature of two requests in flight, one await at a time. Other
\* requests read db, the committed rows; a transaction's rows are in trs.
CreatureIdsDrawn ==
    {db.creatures[i].id : i \in 1..Len(db.creatures)}
        \cup {trs[r].c_id : r \in {x \in Requests : trs[x].c_id # 0}}
        \cup aborted

\* `insert ... returning id`: the sequence never hands an id out twice.
nextval == Cardinality(CreatureIdsDrawn) + 1

TxResp(ok, err, val, fault) == Resp("create_creature", ok, err, val, fault, None)

\* The guard, then pool.begin().
TxBegin ==
    \E r \in Requests :
        /\ trs[r].pc = "none"
        /\ \E c \in {[active |-> TRUE, user |-> u, cookie |-> None] :
                        u \in {None} \cup {Some(x) : x \in Range(db.users)}} :
              IF IsSome(LoginGuard(c))
              THEN /\ resp' = TxResp(FALSE, Unwrap(LoginGuard(c)), None, "none")
                   /\ UNCHANGED trs
              ELSE \/ /\ trs' = [trs EXCEPT ![r] = begin(Unwrap(c.user))]
                      /\ UNCHANGED resp
                   \/ /\ resp' = TxResp(FALSE, SqlxFieldError, None, "io_tx")
                      /\ UNCHANGED trs
        /\ UNCHANGED <<db, now, ctx, issued, loadVars, probe, aborted>>

\* insert into poop.creatures (creator_id, name) ... returning id
TxInsertCreature ==
    \E r \in Requests :
        /\ trs[r].pc = "begun"
        /\ nextval <= MaxCreated
        /\ LET row == [id |-> nextval, creator_id |-> trs[r].user,
                       name |-> CreatureName, deleted |-> FALSE]
               e == execute(db, trs[r], "creatures", row)
           IN  /\ db' = e.db
               /\ trs' = [trs EXCEPT ![r] = [e.tr EXCEPT !.pc = "creature",
                                                         !.c_id = row.id]]
        /\ UNCHANGED <<sessionVars, loadVars, probe, aborted>>

\* insert into poop.creature_access (creature_id, user_id, creator_id, kind)
TxInsertAccess ==
    \E r \in Requests :
        /\ trs[r].pc = "creature"
        /\ LET row == [creature_id |-> trs[r].c_id, user_id |-> trs[r].user,
                       creator_id |-> trs[r].user, kind |-> "creator",
                       deleted |-> FALSE]
               e == execute(db, trs[r], "creature_access", row)
           IN  /\ db' = e.db
               /\ trs' = [trs EXCEPT ![r] = [e.tr EXCEPT !.pc = "access"]]
        /\ UNCHANGED <<sessionVars, loadVars, probe, aborted>>

\* The statement a transaction is at fails, or the re-read finds no row:
\* `?` returns, tr is dropped and the transaction is rolled back.
Rollback(r) ==
    /\ trs' = [trs EXCEPT ![r] = NoTx]
    /\ aborted' = IF trs[r].c_id # 0 THEN aborted \cup {trs[r].c_id} ELSE aborted
    /\ resp' = TxResp(FALSE, SqlxFieldError, None, "io_tx")
    /\ UNCHANGED <<db, now, ctx, issued, loadVars, probe>>

\* select c.*, ca.user_id, ca.kind ... where c.id = $1 ..., inside tr
TxReRead ==
    \E r \in Requests :
        /\ trs[r].pc = "access"
        /\ \E q \in fetch_one(ReRead(db, trs[r])) :
              IF q.ok
              THEN /\ trs' = [trs EXCEPT ![r].pc = "read", ![r].val = q.val]
                   /\ UNCHANGED <<db, sessionVars, loadVars, probe, aborted>>
              ELSE q.err = "RowNotFound" /\ Rollback(r)

\* tr.commit(), then Ok(c)
TxCommit ==
    \E r \in Requests :
        /\ trs[r].pc = "read"
        /\ db' = commit(db, trs[r])
        /\ trs' = [trs EXCEPT ![r] = NoTx]
        /\ resp' = TxResp(TRUE, NoError, trs[r].val, "none")
        /\ UNCHANGED <<now, ctx, issued, loadVars, probe, aborted>>

\* The round trip of the statement a transaction is at (an insert, the
\* re-read or the commit) fails.
TxFail ==
    \E r \in Requests :
        /\ trs[r].pc \in {"begun", "creature", "access", "read"}
        /\ Rollback(r)

InitTxSpec ==
    /\ db = LoadDb
    /\ InitSession
    /\ InitLoaders
    /\ InitTx
    /\ probe = NoProbe

NextTx ==
    \/ TxBegin
    \/ TxInsertCreature
    \/ TxInsertAccess
    \/ TxReRead
    \/ TxCommit
    \/ TxFail

SpecTx == InitTxSpec /\ [][NextTx]_vars

\* -------------------------------------------------------------- SpecRevoke
\* One account signed up, holding the session sign_up issued; requests and
\* logins go on while, outside the operations of the core, the user row or
\* a token row is soft-deleted.
RevokeSignUp == CHOOSE o \in sign_up(EmptyDb, 0, "a@x", UserName, "pw1") : o.ok

UserSoftDeleted ==
    /\ resp = NoResp
    /\ \E i \in 1..Len(db.users) :
          /\ db.users[i].deleted = FALSE
          /\ db' = [db EXCEPT !.users[i].deleted = TRUE]
    /\ UNCHANGED <<sessionVars, loadVars, probe, txVars>>

TokenSoftDeleted ==
    /\ resp = NoResp
    /\ \E i \in 1..Len(db.auth_tokens) :
          /\ db.auth_tokens[i].deleted = FALSE
          /\ db' = [db EXCEPT !.auth_tokens[i].deleted = TRUE]
    /\ UNCHANGED <<sessionVars, loadVars, probe, txVars>>

InitRevoke ==
    /\ db = RevokeSignUp.db
    /\ now = 0
    /\ ctx = [active |-> FALSE, user |-> None, cookie |-> None]
    /\ resp = NoResp
    /\ issued = <<[token |-> Unwrap(RevokeSignUp.raw),
                   user_id |-> Unwrap(RevokeSignUp.val).id, at |-> 0]>>
    /\ InitLoaders
    /\ InitTx
    /\ probe = NoProbe

\* A request presenting a value read from auth_tokens.hash as its cookie.
RequestStoredHash ==
    RequestWith({db.auth_tokens[i].hash : i \in 1..Len(db.auth_tokens)})

\* The values logout can write into the session cookie.
LogoutMarkers == {Unwrap(o.set_cookie).token : o \in logout(db)}

\* A request presenting the cookie a logout left behind.
RequestLogoutMarker == RequestWith(LogoutMarkers)

NextRevoke ==
    \/ Request
    \/ RequestStoredHash
    \/ RequestLogoutMarker
    \/ Logout
    \/ Login
    \/ NextField
    \/ Tick
    \/ UserSoftDeleted
    \/ TokenSoftDeleted

SpecRevoke == InitRevoke /\ [][NextRevoke]_vars

\* ------------------------------------------------------- creature claims
CreatureRows(d, id) == {i \in 1..Len(d.creatures) : d.creatures[i].id = id}
AccessRows(d, id) ==
    {i \in 1..Len(d.creature_access) : d.creature_access[i].creature_id = id}
CreatorGrants(d, c) ==
    {i \in AccessRows(d, c.id) :
        /\ d.creature_access[i].user_id = c.creator_id
        /\ d.creature_access[i].creator_id = c.creator_id
        /\ d.creature_access[i].kind = "creator"}

\* C13: create_creature is atomic. In every state of storage another
\* request can read, a creature row is there exactly when its creator's
\* access row is; the rows of a transaction still open are not there; and
\* the creature of a transaction that failed at the access insert, the
\* re-read or the commit is never there afterwards. A successful call has
\* both rows there, and the creator's creature list shows the creature.
C13_CreateCreatureAtomic ==
    /\ \A c \in Range(db.creatures) :
          /\ Cardinality(CreatorGrants(db, c)) = 1
          /\ \A m \in LoadCreaturesForUserId(db, {c.creator_id}) :
                \E i \in DOMAIN m[c.creator_id] : m[c.creator_id][i].id = c.id
    /\ \A a \in Range(db.creature_access) : CreatureRows(db, a.creature_id) # {}
    /\ \A r \in Requests :
          trs[r].c_id # 0 =>
              CreatureRows(db, trs[r].c_id) = {} /\ AccessRows(db, trs[r].c_id) = {}
    /\ \A id \in aborted : CreatureRows(db, id) = {} /\ AccessRows(db, id) = {}
    /\ (resp.op = "create_creature" /\ resp.ok) =>
          /\ Cardinality(CreatureRows(db, Unwrap(resp.val).id)) = 1
          /\ Cardinality(AccessRows(db, Unwrap(resp.val).id)) = 1

\* One creature committed, one transaction failed after its creature
\* insert, and one more transaction begun.
C13_Witness ==
    /\ Len(db.creatures) = 1
    /\ aborted # {}
    /\ \E r \in Requests : trs[r].pc = "begun"

\* C14: a successful create_creature(name) by user U adds exactly one
\* relation to U's creature list as a following request fetches it, the
\* new creature with that name, creator U, subject user U and kind
\* "creator", and adds none to any other user's list; no other step of
\* create_creature changes any list. For a U without creatures the list
\* after the call is that one relation.
Creator(name, id, U) ==
    [id |-> id, user_id |-> U, kind |-> "creator", creator_id |-> U,
     name |-> name, deleted |-> FALSE]

ListsGain(d1, d2, U, gained) ==
    \A u \in {d1.users[i].id : i \in 1..Len(d1.users)} :
        \A l1 \in User_creatures(d1, u), l2 \in User_creatures(d2, u) :
            /\ Range(l2) = Range(l1) \cup (IF u = U THEN gained ELSE {})
            /\ Len(l2) = Len(l1) + (IF u = U THEN Cardinality(gained) ELSE 0)
            /\ gained \cap Range(l1) = {}

C14_Step ==
    \/ /\ resp'.op = "create_creature"
       /\ resp'.ok
       /\ \E r \in Requests :
             /\ trs[r].pc = "read"
             /\ trs'[r] = NoTx
             /\ resp'.val = Some(Creator(CreatureName, trs[r].c_id, trs[r].user))
             /\ ListsGain(db, db', trs[r].user, {Unwrap(resp'.val)})
             /\ User_creatures(db, trs[r].user) = {<<>>}
                   => User_creatures(db', trs[r].user) = {<<Unwrap(resp'.val)>>}
    \/ /\ ~(resp'.op = "create_creature" /\ resp'.ok /\ resp' # resp)
       /\ Len(db'.creatures) = Len(db.creatures)
       /\ ListsGain(db, db', 0, {})

C14_CreateAddsOneRelation == [][C14_Step]_vars

\* The second account has created a creature after the first had: each
\* list holds its owner's creature.
C14_Witness ==
    /\ resp.op = "create_creature"
    /\ resp.ok
    /\ Unwrap(resp.val).user_id = 2
    /\ User_creatures(db, 2) = {<<Unwrap(resp.val)>>}
    /\ \E l \in User_creatures(db, 1) : Len(l) = 1 /\ l[1].user_id = 1

\* ------------------------------------------------------- session claims
UserById(d, id) == CHOOSE u \in Range(d.users) : u.id = id
IssuedTokens == {issued[i].token : i \in 1..Len(issued)}
Expiry(s) == s.at + AuthExpirationSeconds
\* The executor is between two fields: the next operation can run now.
Idle == resp = NoResp

\* C6: after a session is issued for user U, the raw token validates to U
\* at every time strictly before issue time + TTL and to nothing at every
\* time at or after it; a request presenting it gets exactly that identity
\* (unless the lookup round trip itself fails).
C6_ValidUntilExpiry ==
    \A i \in 1..Len(issued) :
        LET s == issued[i]
            rows == session_rows(db, now, s.token)
            U == UserById(db, s.user_id)
        IN  /\ now < Expiry(s) => rows = {U}
            /\ now >= Expiry(s) => rows = {}
            /\ (resp.op = "request" /\ ctx.cookie = Some(s.token)
                    /\ resp.fault # "Io") =>
                   ctx.user = IF now < Expiry(s) THEN Some(U) ELSE None

C6_Witness ==
    \E i, j \in 1..Len(issued) :
        /\ resp.op = "request"
        /\ ctx.cookie = Some(issued[i].token)
        /\ now < Expiry(issued[i])
        /\ ctx.user = Some(UserById(db, issued[i].user_id))
        /\ now >= Expiry(issued[j])
        /\ session_rows(db, now, issued[j].token) = {}

\* C7: a token that was never issued validates to nothing and not to an
\* error: the request is executed, anonymous, and the unguarded operations
\* in it are not refused for the lack of an identity.
C7_UnknownTokenIsAnonymous ==
    /\ \A c \in CookieValues \ IssuedTokens : session_rows(db, now, c) = {}
    /\ (ctx.active /\ IsSome(ctx.cookie) /\ Unwrap(ctx.cookie) \notin IssuedTokens)
          => ctx.user = None
    /\ resp.op = "request" => (resp.ok /\ ctx.active)
    /\ (ctx.active /\ ctx.user = None) =>
          /\ resp.op = "logout" => resp.ok
          /\ resp.op \in {"login", "sign_up"} => resp.err.kind # "Unauthorized"
          /\ Idle =>
                /\ \A o \in logout(db) : o.ok
                /\ \A e \in Emails, p \in Passwords :
                      EmailTaken(db, e)
                          \/ \E o \in sign_up(db, now, e, UserName, p) : o.ok

C7_Witness ==
    /\ ctx.active
    /\ IsSome(ctx.cookie)
    /\ Unwrap(ctx.cookie) \notin IssuedTokens
    /\ ctx.user = None
    /\ resp.op = "sign_up"
    /\ resp.ok
    /\ Len(db.auth_tokens) > 0

\* C8: logout returns true with or without an identity and leaves every
\* AuthToken row as it was: a token issued before it still validates to
\* its user until it expires.
C8_LogoutKeepsSessions ==
    /\ Idle => \A o \in logout(db) : o.ok /\ o.val = Some(TRUE) /\ o.db = db
    /\ resp.op = "logout" =>
          /\ resp.ok /\ resp.val = Some(TRUE)
          /\ \A i \in 1..Len(issued) :
                now < Expiry(issued[i]) =>
                    session_rows(db, now, issued[i].token)
                        = {UserById(db, issued[i].user_id)}

C8_Witness ==
    /\ resp.op = "logout"
    /\ resp.ok
    /\ IsSome(ctx.user)
    /\ \E i \in 1..Len(issued) :
          /\ ctx.cookie = Some(issued[i].token)
          /\ now < Expiry(issued[i])
          /\ session_rows(db, now, issued[i].token) = {Unwrap(ctx.user)}

\* C9: AuthToken rows only accumulate. The table is, row for row, the
\* sessions issued so far; whichever operation runs next, a successful login
\* or sign_up appends exactly one row, every other outcome appends none,
\* and no outcome (create_creature and the queries included) changes or
\* removes a row, so every issued token validates after it as before it.
TokensKept(d1, d2) ==
    /\ Len(d2.auth_tokens) >= Len(d1.auth_tokens)
    /\ SubSeq(d2.auth_tokens, 1, Len(d1.auth_tokens)) = d1.auth_tokens

Accumulates(issuing, o) ==
    /\ TokensKept(db, o.db)
    /\ Len(o.db.auth_tokens) =
          Len(db.auth_tokens) + (IF issuing /\ o.ok THEN 1 ELSE 0)
    /\ o.db # db =>
          \A i \in 1..Len(issued) :
              session_rows(o.db, now, issued[i].token)
                  = session_rows(db, now, issued[i].token)

C9_TokensOnlyAccumulate ==
    /\ Len(db.auth_tokens) = Len(issued)
    /\ \A i \in 1..Len(issued) :
          db.auth_tokens[i] =
              [user_id |-> issued[i].user_id, hash |-> hmac_sign(issued[i].token),
               expires |-> Expiry(issued[i]), deleted |-> FALSE]
    /\ Idle =>
          /\ \A e \in Emails, p \in Passwords :
                /\ \A o \in login(db, now, e, p) : Accumulates(TRUE, o)
                /\ \A o \in sign_up(db, now, e, UserName, p) : Accumulates(TRUE, o)
          /\ \A o \in logout(db) : Accumulates(FALSE, o)
          /\ \A o \in create_creature(db, ctx, CreatureName) : Accumulates(FALSE, o)
          /\ \A o \in query_user(db, ctx) \cup query_poops(db, ctx) :
                Accumulates(FALSE, o)

C9_Witness ==
    /\ resp.op = "login"
    /\ resp.ok
    /\ Len(issued) = 2
    /\ issued[1].user_id = issued[2].user_id
    /\ issued[1].at < issued[2].at
    /\ Len(db.auth_tokens) = 2
    /\ session_rows(db, now, issued[1].token) = {Unwrap(resp.val)}
    /\ session_rows(db, now, issued[2].token) = {Unwrap(resp.val)}

\* C10: login with an email of no non-deleted user and login with a known
\* email and a wrong password fail with the same error kind, bad-request.
NoSuchUser(d, email) ==
    ~\E u \in Range(d.users) : u.email = email /\ u.deleted = FALSE
WrongPassword(d, email, pw) ==
    \E u \in Range(d.users) :
        /\ u.email = email
        /\ u.deleted = FALSE
        /\ u.pw_hash # hex_encode(derive_password_hash(pw, hex_decode(u.pw_salt)[1]))

C10_LoginFailuresSameKind ==
    /\ Idle =>
          \A email \in Emails, pw \in Passwords :
              \A o \in login(db, now, email, pw) :
                  (o.fault = "none"
                      /\ (NoSuchUser(db, email) \/ WrongPassword(db, email, pw)))
                      => (~o.ok /\ o.err.kind = "BadRequest")
    /\ (resp.op = "login" /\ ~resp.ok /\ resp.fault = "none")
          => resp.err.kind = "BadRequest"

C10_Witness ==
    /\ resp.op = "login"
    /\ ~resp.ok
    /\ resp.fault = "none"
    /\ resp.err.kind = "BadRequest"
    /\ \E email \in Emails : NoSuchUser(db, email)
    /\ \E email \in Emails, pw \in Passwords : WrongPassword(db, email, pw)

\* C11: the error response of a failed login (its message and its
\* extensions, code and error) is the same whether the email matches no
\* non-deleted user or the email is known and the password is wrong.
ErrorResponse(err) == [message |-> err.message, extensions |-> err.ext]

C11_LoginFailuresSameResponse ==
    Idle =>
        \A e1 \in Emails, e2 \in Emails, p1 \in Passwords, p2 \in Passwords :
            \A o1 \in login(db, now, e1, p1), o2 \in login(db, now, e2, p2) :
                (/\ o1.fault = "none" /\ NoSuchUser(db, e1)
                 /\ o2.fault = "none" /\ WrongPassword(db, e2, p2))
                    => ErrorResponse(o1.err) = ErrorResponse(o2.err)

\* C12: the guard lets an operation through exactly when the request
\* context carries a user, and the context carries a user exactly when the
\* request's cookie was looked up to one. create_creature, the current-user
\* query and the poops query run their body for such a request and fail
\* with the unauthorized kind (code 401), storage untouched, for any other.
Refused(o) ==
    /\ ~o.ok
    /\ o.err.kind = "Unauthorized"
    /\ o.err.ext.code = "i:401"
    /\ o.val = None

C12_GuardIffAuthenticated ==
    /\ ctx.active => (LoginGuard(ctx) = None <=> IsSome(ctx.user))
    /\ resp.op = "request" =>
          /\ IsSome(ctx.user) <=> (IsSome(ctx.cookie) /\ resp.fault = "none")
          /\ IsSome(ctx.user) =>
                session_rows(db, now, Unwrap(ctx.cookie)) = {Unwrap(ctx.user)}
    /\ resp.op \in {"user", "poops"} =>
          IF IsSome(ctx.user)
          THEN /\ resp.ok
               /\ resp.op = "user" => resp.val = ctx.user
               /\ resp.op = "poops" => resp.val = Some([id |-> "1", maker |-> "James"])
          ELSE Refused(resp)
    /\ (Idle /\ ctx.active) =>
          /\ \A o \in query_user(db, ctx) \cup query_poops(db, ctx) :
                IF IsSome(ctx.user) THEN o.ok ELSE Refused(o) /\ o.db = db
          /\ \A o \in create_creature(db, ctx, CreatureName) :
                IF IsSome(ctx.user)
                THEN /\ o.err.kind # "Unauthorized"
                     /\ o.ok => /\ Unwrap(o.val).creator_id = Unwrap(ctx.user).id
                                /\ Len(o.db.creatures) = Len(db.creatures) + 1
                ELSE Refused(o) /\ o.db = db
          /\ IsSome(ctx.user) =>
                \E o \in create_creature(db, ctx, CreatureName) : o.ok

\* A request presenting an issued token that has expired is refused.
C12_Witness ==
    /\ resp.op = "poops"
    /\ Refused(resp)
    /\ IsSome(ctx.cookie)
    /\ Unwrap(ctx.cookie) \in IssuedTokens
    /\ ctx.user = None

\* C19: a session authenticates only a non-deleted user through a
\* non-deleted token. An issued token validates to its user before its
\* expiry while neither the user row nor the token row is soft-deleted, and
\* to nothing once either is; a request presenting it then carries no
\* identity; and login with a soft-deleted user's email fails whatever the
\* password, the right one included.
C19_DeletedNeverAuthenticates ==
    /\ \A i \in 1..Len(issued) :
          LET U == UserById(db, issued[i].user_id)
              gone == U.deleted \/ db.auth_tokens[i].deleted
          IN  /\ db.auth_tokens[i].hash = hmac_sign(issued[i].token)
              /\ session_rows(db, now, issued[i].token) =
                    IF gone \/ now >= Expiry(issued[i]) THEN {} ELSE {U}
              /\ (resp.op = "request" /\ ctx.cookie = Some(issued[i].token) /\ gone)
                    => ctx.user = None
    /\ (resp.op = "request" /\ IsSome(ctx.user)) =>
          Unwrap(ctx.user) \in {u \in Range(db.users) : u.deleted = FALSE}
    /\ (resp.op = "login" /\ resp.ok) =>
          Unwrap(resp.val) \in {u \in Range(db.users) : u.deleted = FALSE}
    /\ Idle =>
          \A u \in {x \in Range(db.users) : x.deleted} :
              \A pw \in Passwords :
                  \A o \in login(db, now, u.email, pw) :
                      /\ ~o.ok
                      /\ o.db = db
                      /\ o.fault = "none" => o.err.kind = "BadRequest"

\* The user was soft-deleted while their token was unexpired and not
\* deleted; a request presenting the token found no row and runs anonymous.
C19_Witness ==
    /\ resp.op = "request"
    /\ resp.fault = "RowNotFound"
    /\ ctx.cookie = Some(issued[1].token)
    /\ ctx.user = None
    /\ now < Expiry(issued[1])
    /\ UserById(db, issued[1].user_id).deleted
    /\ db.auth_tokens[1].deleted = FALSE

\* C20: the credential round trip. For an account sign_up created, login
\* with its email and a password pw2 succeeds, returning that user, exactly
\* when pw2 derives, with the stored salt, the stored digest (storage and
\* generator failures aside); the password the account was signed up with
\* is such a password, so login with it can succeed.
Matches(u, pw2) ==
    /\ IsSome(hex_decode(u.pw_salt))
    /\ hex_encode(derive_password_hash(pw2, Unwrap(hex_decode(u.pw_salt)))) = u.pw_hash

RoundTrip(d, t, u) ==
    /\ \A pw2 \in Passwords :
          /\ \A o \in login(d, t, u.email, pw2) :
                /\ o.ok => (Matches(u, pw2) /\ o.val = Some(u))
                /\ (o.fault = "none" /\ Matches(u, pw2)) => o.ok
          /\ \E o \in login(d, t, u.email, pw2) : o.fault = "none"
    /\ \A pw \in SignUpPasswords :
          /\ Matches(u, pw)
          /\ \E o \in login(d, t, u.email, pw) : o.ok /\ o.val = Some(u)

C20_CredentialRoundTrip ==
    /\ Idle => \A u \in Range(db.users) : RoundTrip(db, now, u)
    /\ (resp.op = "sign_up" /\ resp.ok) =>
          /\ Unwrap(resp.val) \in Range(db.users)
          /\ RoundTrip(db, now, Unwrap(resp.val))
    /\ (resp.op = "login" /\ resp.ok) =>
          /\ Unwrap(resp.val) \in Range(db.users)
          /\ \E pw2 \in Passwords : Matches(Unwrap(resp.val), pw2)

\* Both accounts exist and the second has just logged in: the first
\* account's digest is of the same password under another salt.
C20_Witness ==
    /\ resp.op = "login"
    /\ resp.ok
    /\ Len(db.users) = 2
    /\ Unwrap(resp.val) = db.users[2]
    /\ Matches(db.users[2], "pw1")
    /\ ~Matches(db.users[2], "pw2")
    /\ db.users[1].pw_hash # db.users[2].pw_hash

\* C21: the server never stores a raw token. Every AuthToken row holds the
\* keyed hash of the raw token that was sent to the client, not the token;
\* the lookup hashes the presented value first, so a value read from
\* auth_tokens.hash and presented as the cookie selects no row and the
\* request carries no identity.
StoredHashes == {db.auth_tokens[i].hash : i \in 1..Len(db.auth_tokens)}

C21_StoredHashIsNoCredential ==
    /\ Len(db.auth_tokens) = Len(issued)
    /\ \A i \in 1..Len(issued) :
          /\ db.auth_tokens[i].hash = hmac_sign(issued[i].token)
          /\ db.auth_tokens[i].hash # issued[i].token
    /\ StoredHashes \cap IssuedTokens = {}
    /\ \A h \in StoredHashes : session_rows(db, now, h) = {}
    /\ (resp.op = "request" /\ IsSome(ctx.cookie)
            /\ Unwrap(ctx.cookie) \in StoredHashes)
          => ctx.user = None
    /\ (resp.op \in {"login", "sign_up"} /\ IsSome(resp.set_cookie)) =>
          /\ Unwrap(resp.set_cookie).token \in IssuedTokens
          /\ Unwrap(resp.set_cookie).token \notin StoredHashes

\* The stored hash of a live session (user and row not deleted, not
\* expired, its raw token still validating) was presented as the cookie:
\* the lookup found no row.
C21_Witness ==
    /\ resp.op = "request"
    /\ resp.fault = "RowNotFound"
    /\ ctx.cookie = Some(db.auth_tokens[1].hash)
    /\ ctx.user = None
    /\ session_rows(db, now, issued[1].token) # {}

\* C23: a set-cookie header with a raw session token is produced only
\* after the AuthToken row of that token was inserted. Every outcome of
\* login and sign_up that sets a cookie succeeded and appended the row
\* holding the token's hash; every failed outcome (unknown email, wrong
\* password, stored hash or salt that does not decode, failed token
\* insert, failed generator) appends no row and sets no cookie.
SessionOutcome(d, o) ==
    /\ IsSome(o.set_cookie) =>
          /\ o.ok
          /\ Len(o.db.auth_tokens) = Len(d.auth_tokens) + 1
          /\ o.db.auth_tokens[Len(o.db.auth_tokens)].hash
                = hmac_sign(Unwrap(o.set_cookie).token)
          /\ o.db.auth_tokens[Len(o.db.auth_tokens)].user_id = Unwrap(o.val).id
    /\ ~o.ok => (o.set_cookie = None /\ o.db.auth_tokens = d.auth_tokens)

\* Storage in which the hex text of user i's digest, or of its salt, was
\* damaged.
Undecodable(d, i, field) == [d EXCEPT !.users[i][field] = <<"damaged", 0>>]

C23_CookieOnlyAfterTokenRow ==
    /\ Idle =>
          /\ \A e \in Emails, p \in Passwords :
                /\ \A o \in login(db, now, e, p) : SessionOutcome(db, o)
                /\ \A o \in sign_up(db, now, e, UserName, p) : SessionOutcome(db, o)
          /\ \A i \in 1..Len(db.users), field \in {"pw_hash", "pw_salt"} :
                \A p \in Passwords :
                    \A o \in login(Undecodable(db, i, field), now, db.users[i].email, p) :
                        /\ ~o.ok
                        /\ o.fault = "none" => o.err.kind = "Hex"
                        /\ SessionOutcome(Undecodable(db, i, field), o)
    /\ resp.op \in {"login", "sign_up"} =>
          /\ ~resp.ok => resp.set_cookie = None
          /\ IsSome(resp.set_cookie) =>
                /\ resp.ok
                /\ \E at \in Range(db.auth_tokens) :
                      /\ at.hash = hmac_sign(Unwrap(resp.set_cookie).token)
                      /\ at.user_id = Unwrap(resp.val).id

\* The token insert of a login with the right password failed: no cookie,
\* and the only session row is the one sign_up had issued.
C23_Witness ==
    /\ resp.op = "login"
    /\ ~resp.ok
    /\ resp.fault = "io_token"
    /\ resp.set_cookie = None
    /\ Len(db.auth_tokens) = 1
    /\ Len(issued) = 1

\* C24: the identity of a request is the one run put into its context and
\* no operation executed in the request changes it. After a successful
\* login or sign_up in an anonymous request the context still has no user
\* and the guarded operations are refused; after a logout in an
\* authenticated request the context still has its user and the guarded
\* operations run.
StartsRequest == resp = NoResp /\ resp'.op = "request"

C24_Step ==
    \/ StartsRequest
    \/ /\ ctx' = ctx
       /\ (resp' # resp /\ resp'.op \in {"login", "sign_up"} /\ resp'.ok
              /\ ctx.user = None) =>
             /\ IsSome(LoginGuard(ctx'))
             /\ \A o \in query_user(db', ctx') \cup query_poops(db', ctx')
                        \cup create_creature(db', ctx', CreatureName) : Refused(o)
       /\ (resp' # resp /\ resp'.op = "logout" /\ IsSome(ctx.user)) =>
             /\ LoginGuard(ctx') = None
             /\ \A o \in query_user(db', ctx') : o.ok /\ o.val = ctx.user
             /\ \A o \in query_poops(db', ctx') : o.ok

C24_IdentityFixedPerRequest == [][C24_Step]_vars

\* A login succeeded in a request that came without a cookie: the session
\* is issued and the request's context still has no user.
C24_Witness ==
    /\ resp.op = "login"
    /\ resp.ok
    /\ IsSome(resp.set_cookie)
    /\ ctx.active
    /\ ctx.cookie = None
    /\ ctx.user = None
    /\ IsSome(LoginGuard(ctx))

\* C25: the value logout writes into the cookie, "xx" followed by the hex
\* of 31 bytes, is never a raw token login or sign_up issued, the hex of 32
\* bytes; a request presenting it finds no session row and is anonymous.
IsMarker(c) == c.pre = "xx" /\ c.body.len = 31 /\ c.mac = 0
IsRawToken(c) == c.pre = "" /\ c.body.len = 32 /\ c.mac = 0

C25_LogoutMarkerIsAnonymous ==
    /\ \A m \in LogoutMarkers :
          /\ IsMarker(m)
          /\ m \notin IssuedTokens
          /\ session_rows(db, now, m) = {}
    /\ \A t \in IssuedTokens : IsRawToken(t) /\ ~IsMarker(t)
    /\ resp.op = "logout" =>
          /\ IsSome(resp.set_cookie)
          /\ Unwrap(resp.set_cookie).token \in LogoutMarkers
    /\ (resp.op \in {"login", "sign_up"} /\ IsSome(resp.set_cookie)) =>
          IsRawToken(Unwrap(resp.set_cookie).token)
    /\ (resp.op = "request" /\ IsSome(ctx.cookie) /\ Unwrap(ctx.cookie) \in LogoutMarkers)
          => (ctx.user = None /\ resp.fault # "none")

\* A request came with a logout marker while the account's session was
\* still valid: no row, no identity.
C25_Witness ==
    /\ resp.op = "request"
    /\ IsSome(ctx.cookie)
    /\ IsMarker(Unwrap(ctx.cookie))
    /\ Unwrap(ctx.cookie).body.rnd = issued[1].token.body.rnd
    /\ resp.fault = "RowNotFound"
    /\ ctx.user = None
    /\ session_rows(db, now, issued[1].token) # {}

\* C26: whatever goes wrong in the session lookup at the start of a request,
\* a storage failure as well as a miss, is swallowed: the request is executed
\* without a user and the failure is not returned to the client.
C26_LookupFailureSwallowed ==
    resp.op = "request" =>
        /\ resp.ok
        /\ resp.err = NoError
        /\ ctx.active
        /\ resp.fault \in {"none", "NoCookie", "RowNotFound", "Io"}
        /\ resp.fault = "none" => IsSome(ctx.user)
        /\ resp.fault # "none" =>
              /\ ctx.user = None
              /\ LoginGuard(ctx) = Some(extend(AppError("Unauthorized", "Unauthorized")))
        /\ resp.fault = "RowNotFound" =>
              session_rows(db, now, Unwrap(ctx.cookie)) = {}

\* The storage failed while looking up a cookie whose session is valid: the
\* request runs, anonymous.
C26_Witness ==
    /\ resp.op = "request"
    /\ resp.ok
    /\ resp.fault = "Io"
    /\ IsSome(ctx.cookie)
    /\ session_rows(db, now, Unwrap(ctx.cookie)) # {}
    /\ ctx.user = None

\* C28: sign_up is not atomic across its two writes: when the user row is
\* inserted and the session issuance that follows fails, sign_up returns an
\* error and sets no cookie, no session row is added, the user row stays,
\* and the account logs in with the password chosen at sign_up.
IssuanceFailed(r) ==
    r.op = "sign_up" /\ ~r.ok /\ r.fault \in {"rand", "io_token"}

CanLogIn(d, t, u) ==
    \E pw \in SignUpPasswords :
        \E l \in login(d, t, u.email, pw) :
            /\ l.ok
            /\ l.val = Some(u)
            /\ IsSome(l.set_cookie)
            /\ Len(l.db.auth_tokens) = Len(d.auth_tokens) + 1

C28_Step ==
    IssuanceFailed(resp') =>
        /\ resp'.set_cookie = None
        /\ resp'.val = None
        /\ resp'.err # NoError
        /\ issued' = issued
        /\ db'.auth_tokens = db.auth_tokens
        /\ Len(db'.users) = Len(db.users) + 1
        /\ SubSeq(db'.users, 1, Len(db.users)) = db.users
        /\ LET u == db'.users[Len(db'.users)]
           IN  /\ ~EmailTaken(db, u.email)
               /\ u.deleted = FALSE
               /\ CanLogIn(db', now', u)

C28_SignUpNotAtomic == [][C28_Step]_vars

\* sign_up has just failed at the token insert: no cookie, the account's
\* row is stored without any session, and its password logs in.
C28_Witness ==
    /\ IssuanceFailed(resp)
    /\ resp.fault = "io_token"
    /\ resp.set_cookie = None
    /\ Len(db.users) >= 1
    /\ LET u == db.users[Len(db.users)]
       IN  /\ \A at \in Range(db.auth_tokens) : at.user_id # u.id
           /\ CanLogIn(db, now, u)

\* -------------------------------------------------------- loader claims
\* The joined rows whose creature and access row are both active.
ActivePairs(d) ==
    {j \in JoinCreatureAccess(d) : j.c.deleted = FALSE /\ j.ca.deleted = FALSE}

CallsOf(r, t) == {c \in DOMAIN calls[r] : calls[r][c].type = t}
KeysCalled(r, t) == {calls[r][c].key : c \in CallsOf(r, t)}
Fetch(l, i) == fetches[l][i]
Senders(f) == {f.pending[j].tx : j \in DOMAIN f.pending}

\* C1: within one request, however many load calls are made for a key and
\* in whatever order, the batched fetch is invoked with that key exactly
\* once, and all of those calls observe the same result.
C1_OneFetchPerKey ==
    \A r \in Requests, t \in LoadTypes, k \in LoadKeys :
        LET F == {i \in FetchesOf(loader_of(r), t) : k \in Fetch(loader_of(r), i).keys}
            C == {c \in CallsOf(r, t) : calls[r][c].key = k /\ calls[r][c].done}
        IN  /\ Cardinality(F) <= 1
            /\ C # {} => Cardinality(F) = 1
            /\ \A c1, c2 \in C : calls[r][c1].res = calls[r][c2].res

C4_FailureSharedNotRetried ==
    \A l \in Requests :
        \A i \in DOMAIN fetches[l] :
            Fetch(l, i).state = "err" =>
                /\ \A tx \in Senders(Fetch(l, i)) :
                      /\ calls[tx[1]][tx[2]].done
                      /\ ~calls[tx[1]][tx[2]].res.ok
                      /\ calls[tx[1]][tx[2]].res.err = <<l, i>>
                /\ \A l2 \in Requests :
                      \A i2 \in DOMAIN fetches[l2] :
                          <<l2, i2>> # <<l, i>> =>
                              Senders(Fetch(l2, i2)) \cap Senders(Fetch(l, i)) = {}
                /\ \A t \in LoadTypes :
                      \A j \in DOMAIN loaders[l][t].pending :
                          loaders[l][t].pending[j].tx \notin Senders(Fetch(l, i))

C4_Witness ==
    \E l \in Requests :
        \E i \in DOMAIN fetches[l] :
            /\ Fetch(l, i).state = "err"
            /\ Cardinality(Senders(Fetch(l, i))) >= 2
            /\ \A tx \in Senders(Fetch(l, i)) : calls[tx[1]][tx[2]].res.err = <<l, i>>

\* C5: every request has a DataLoader of its own: no two requests share one,
\* and the calls a loader holds, batches and answers, from a fetch or from
\* its cache, are calls of the one request it was built for.
C5_LoaderPerRequest ==
    /\ \A r1, r2 \in Requests : r1 # r2 => loader_of(r1) # loader_of(r2)
    /\ \A l \in Requests :
          /\ \A i \in DOMAIN fetches[l] :
                \A tx \in Senders(Fetch(l, i)) : loader_of(tx[1]) = l /\ tx[1] = l
          /\ \A t \in LoadTypes :
                /\ \A j \in DOMAIN loaders[l][t].pending :
                      loaders[l][t].pending[j].tx[1] = l
                /\ \A k \in DOMAIN loaders[l][t].cache :
                      \E i \in FetchesOf(l, t) :
                          Fetch(l, i).state = "ok" /\ k \in Fetch(l, i).keys

C5_Witness ==
    \E t \in LoadTypes, k \in LoadKeys :
        \A r \in Requests :
            \E c \in CallsOf(r, t) :
                /\ calls[r][c].key = k
                /\ calls[r][c].done
                /\ calls[r][c].res.ok
                /\ \E i \in FetchesOf(r, t) : <<r, c>> \in Senders(Fetch(r, i))

\* C16: once a creature is soft-deleted, no load of creatures-for-user
\* answered from then on has it in its list, whichever user is asked for,
\* the creator or one the creature was shared with: every load issued
\* after the deletion is answered by a fetch that ran after it.
Answered(r, c) ==
    /\ c \in DOMAIN calls[r]
    /\ ~calls[r][c].done
    /\ calls'[r][c].done
    /\ calls'[r][c].res.ok

DeletedCreatures(d) ==
    {d.creatures[i].id : i \in {j \in 1..Len(d.creatures) : d.creatures[j].deleted}}

C16_Step ==
    \A r \in Requests :
        \A c \in DOMAIN calls'[r] :
            (Answered(r, c) /\ IsSome(calls'[r][c].res.val)) =>
                \A i \in DOMAIN Unwrap(calls'[r][c].res.val) :
                    Unwrap(calls'[r][c].res.val)[i].id \notin DeletedCreatures(db)

ActiveRelations(d, u) ==
    {CreatureRelation(j.c, j.ca) : j \in {x \in ActivePairs(d) : x.ca.user_id = u}}

C22_Step ==
    \A r \in Requests :
        \A c \in DOMAIN calls[r] :
            (~calls[r][c].done /\ calls'[r][c].done) =>
                \E i \in DOMAIN fetches[r] :
                    /\ <<r, c>> \in Senders(fetches[r][i])
                    /\ fetches[r][i].state = "running"
                    /\ LET res == calls'[r][c].res
                           rows == ActiveRelations(db, calls[r][c].key)
                       IN  IF fetches'[r][i].state = "ok"
                           THEN /\ res.ok
                                /\ res.err = <<>>
                                /\ res.val = None <=> rows = {}
                                /\ Range(unwrap_or_else_new(res.val)) = rows
                                /\ Len(unwrap_or_else_new(res.val)) = Cardinality(rows)
                           ELSE /\ fetches'[r][i].state = "err"
                                /\ ~res.ok

C22_Resolvers ==
    /\ \A u \in {db.users[i].id : i \in 1..Len(db.users)} :
          ActiveRelations(db, u) = {} => User_creatures(db, u) = {<<>>}
    /\ \A c \in {db.creatures[i].id : i \in 1..Len(db.creatures)} :
          {p \in Range(db.poops) : p.creature_id = c /\ p.deleted = FALSE} = {}
              => CreatureRelation_poops(db, c) = {<<>>}

C22_AbsentKeyIsNone == [][C22_Step]_vars /\ []C22_Resolvers

\* One batch held the keys of both accounts while only the first had a
\* creature: the mapping had no entry for the second, whose call got None
\* from the same fetch that gave the first its list.
C22_Witness ==
    \E r \in Requests :
        \E i \in DOMAIN fetches[r] :
            /\ fetches[r][i].state = "ok"
            /\ fetches[r][i].keys = {1, 2}
            /\ \E c1, c2 \in DOMAIN calls[r] :
                  /\ {<<r, c1>>, <<r, c2>>} \subseteq Senders(fetches[r][i])
                  /\ calls[r][c1].res.ok /\ IsSome(calls[r][c1].res.val)
                  /\ calls[r][c2].res.ok /\ calls[r][c2].res.val = None
                  /\ calls[r][c2].key = 2

\* --------------------------------------------------------- fetch claims
IsList(t) == t \in {"CreaturesForUserId", "PoopsForCreatureId"}
Count(q, x) == Cardinality({i \in DOMAIN q : q[i] = x})
SameRows(p, q) ==
    /\ Len(p) = Len(q)
    /\ \A x \in Range(p) \cup Range(q) : Count(p, x) = Count(q, x)
CreatedDesc(q) == \A i, j \in DOMAIN q : i < j => q[i].created >= q[j].created

\* C3 as stated: for every key type, storage state and key set K, the value
\* the batched fetch of K resolves for a key k of K equals the value of a
\* dedicated fetch of {k}; for lists, the same rows in the same order.
C3_BatchedEqualsDedicated ==
    probe.type # "none" => probe.batched = probe.dedicated

\* C3, amended: the batched fetch of K resolves a key k of K exactly when a
\* dedicated fetch of {k} does; a user or a creature access resolved is the
\* same row; a list resolved holds the same rows, each as many times, and a
\* list of poops is in descending order of creation time in both. The order
\* of a user's creatures, and of poops created at the same time, is not fixed.
C3_BatchedEqualsDedicatedUpToOrder ==
    probe.type # "none" =>
        /\ IsSome(probe.batched) <=> IsSome(probe.dedicated)
        /\ IsSome(probe.batched) /\ IsSome(probe.dedicated) =>
              IF IsList(probe.type)
              THEN /\ SameRows(Unwrap(probe.batched), Unwrap(probe.dedicated))
                   /\ probe.type = "PoopsForCreatureId" =>
                         /\ CreatedDesc(Unwrap(probe.batched))
                         /\ CreatedDesc(Unwrap(probe.dedicated))
              ELSE probe.batched = probe.dedicated

C3_Witness ==
    /\ IsList(probe.type)
    /\ Cardinality(probe.keys) >= 2
    /\ IsSome(probe.batched)
    /\ IsSome(probe.dedicated)
    /\ Len(Unwrap(probe.batched)) >= 2
    /\ probe.batched # probe.dedicated

\* C15: the composite loader resolves a key (creature_id, user_id) to a
\* row only when storage holds an active access row for exactly that pair
\* on an active creature, and the row it resolves is the one of that pair;
\* otherwise it resolves nothing, also when the batch's query fetched rows
\* that match only the creature or only the user of the key.
C15_ExactPairOnly ==
    probe.type = "CreatureUserId" =>
        LET k == probe.key
            exact == {j \in ActivePairs(db) :
                         j.c.id = k[1] /\ j.ca.user_id = k[2]}
        IN  \A v \in {probe.batched, probe.dedicated} :
                /\ IsSome(v) <=> exact # {}
                /\ IsSome(v) =>
                      Unwrap(v) \in {CreatureRelation(j.c, j.ca) : j \in exact}

\* A batch of two keys whose query fetched a row of the key's creature for
\* another user and a row of the key's user for another creature, while
\* the key's own pair has no active access row: the key resolves nothing.
C15_Witness ==
    /\ probe.type = "CreatureUserId"
    /\ Cardinality(probe.keys) = 2
    /\ probe.batched = None
    /\ \E j \in ActivePairs(db) :
          j.c.id = probe.key[1] /\ j.ca.user_id # probe.key[2]
    /\ \E j \in ActivePairs(db) :
          j.c.id # probe.key[1] /\ j.ca.user_id = probe.key[2]

\* C17: no query of the core returns a soft-deleted row: what the four
\* relation loaders resolve (a user by id, a creature-access pair, the
\* creatures of a user, the poops of a creature) and what the session and
\* login lookups select are rows whose deleted flag is not set.
ProbeValues == {v \in {probe.batched, probe.dedicated} : IsSome(v)}

C17_LoadersFilterDeleted ==
    /\ probe.type = "CreatureUserId" =>
          \A v \in ProbeValues :
              Unwrap(v) \in {CreatureRelation(j.c, j.ca) : j \in ActivePairs(db)}
    /\ probe.type = "CreaturesForUserId" =>
          \A v \in ProbeValues :
              Range(Unwrap(v)) \subseteq
                  {CreatureRelation(j.c, j.ca) : j \in ActivePairs(db)}
    /\ probe.type = "PoopsForCreatureId" =>
          \A v \in ProbeValues : \A p \in Range(Unwrap(v)) : p.deleted = FALSE

C17_LookupsFilterDeleted ==
    /\ \A c \in CookieValues :
          \A u \in session_rows(db, now, c) :
              /\ u.deleted = FALSE
              /\ \E at \in Range(db.auth_tokens) :
                    at.hash = hmac_sign(c) /\ at.user_id = u.id /\ at.deleted = FALSE
    /\ \A e \in Emails, p \in Passwords :
          \A o \in login(db, now, e, p) : o.ok => Unwrap(o.val).deleted = FALSE

C17_NoDeletedRowReturned ==
    /\ probe.type = "UserId" =>
          \A v \in ProbeValues : Unwrap(v).deleted = FALSE
    /\ C17_LoadersFilterDeleted
    /\ C17_LookupsFilterDeleted

\* C18: the list resolved for a poops-for-creature-id key c holds exactly
\* the non-deleted poops of creature c, each once, newest first (creation
\* time never increasing along the list), whether c is fetched alone or in
\* a batch with other creature ids; a creature without such poops resolves
\* to no entry, which Creature::poops turns into the empty list.
PoopsOf(d, c) == {p \in Range(d.poops) : p.creature_id = c /\ p.deleted = FALSE}

C18_PoopsExactAndNewestFirst ==
    probe.type = "PoopsForCreatureId" =>
        \A v \in {probe.batched, probe.dedicated} :
            /\ IsSome(v) <=> PoopsOf(db, probe.key) # {}
            /\ IsSome(v) =>
                  /\ Range(Unwrap(v)) = PoopsOf(db, probe.key)
                  /\ Len(Unwrap(v)) = Cardinality(PoopsOf(db, probe.key))
                  /\ CreatedDesc(Unwrap(v))

\* A batch of two creature ids; the key's creature has a newer poop that
\* was inserted first and an older one inserted second, and its list has
\* the newer one first.
C18_Witness ==
    /\ probe.type = "PoopsForCreatureId"
    /\ Cardinality(probe.keys) = 2
    /\ IsSome(probe.batched)
    /\ Len(Unwrap(probe.batched)) = 2
    /\ Unwrap(probe.batched)[1].created > Unwrap(probe.batched)[2].created
    /\ Unwrap(probe.batched)[1].id < Unwrap(probe.batched)[2].id


\* C27: Poop.creature is resolved through the key (poop.creature_id,
\* poop.creator_id), the access relation of the poop's creator and not of
\* the user of the request: it returns the creator's relation row, and it
\* fails, with the internal error of a missing relation, whenever the
\* creator has no active access row to the creature, whatever access the
\* requesting user has.
CreatorPairs(d, p) ==
    {j \in ActivePairs(d) :
        j.c.id = p.creature_id /\ j.ca.user_id = p.creator_id}

MissingRelation ==
    extend(AppError("E", "missing expected creature -> user relation"))

C27_PoopCreatureThroughCreator ==
    probe.type = "Poop.creature" =>
        LET p == probe.poop
            own == CreatorPairs(db, p)
        IN  /\ probe.key = <<p.creature_id, p.creator_id>>
            /\ probe.result.ok =>
                  /\ own # {}
                  /\ Unwrap(probe.result.val)
                        \in {CreatureRelation(j.c, j.ca) : j \in own}
                  /\ Unwrap(probe.result.val).user_id = p.creator_id
            /\ own = {} =>
                  /\ ~probe.result.ok
                  /\ probe.fault = "none" =>
                        /\ probe.result.err = MissingRelation
                        /\ probe.result.err.ext.code = "s:500"
            /\ (own # {} /\ probe.fault = "none") => probe.result.ok

\* The user of the request has an active access row to the poop's creature,
\* the poop's creator has none: the field fails.
C27_Witness ==
    /\ probe.type = "Poop.creature"
    /\ probe.viewer # probe.poop.creator_id
    /\ probe.fault = "none"
    /\ CreatorPairs(db, probe.poop) = {}
    /\ \E j \in ActivePairs(db) :
          j.c.id = probe.poop.creature_id /\ j.ca.user_id = probe.viewer
    /\ ~probe.result.ok
    /\ probe.result.err = MissingRelation

====
